---- MODULE Spec2Model ----
(***************************************************************************)
(* A model of wgs_analysis/snvs/mutsig.py: the reverse complement, the     *)
(* context lookup built by load_signature_probabilities, the context       *)
(* assignment of plot_cohort_mutation_signatures, the count filter and     *)
(* count matrix of fit_sample_signatures, and the class partition of       *)
(* test_ancestral_descendant.                                              *)
(*                                                                         *)
(* A string is a sequence of one-character strings.  Every function of the *)
(* program is pure, so each has a specification of its own whose Init      *)
(* draws the arguments from bounded sets and whose actions are the         *)
(* statements of the function, in order.                                   *)
(***************************************************************************)
EXTENDS Integers, Sequences, FiniteSets

VARIABLES
    sequence,      \* reverse_complement: the argument
    rc_value,      \* reverse_complement: the value after rc_applied applications
    rc_applied,    \* reverse_complement: how often it was applied (0..2)
    table,         \* load_signature_probabilities: the rows read by pd.read_csv
    load_pc,       \* load_signature_probabilities: "start" | "done"
    load_status,   \* load_signature_probabilities: "ok" | "IndexError"
    sigs,          \* load_signature_probabilities: the returned context lookup
    sig_prob_index, \* load_signature_probabilities: index of the returned matrix
    snvs_input,    \* plot_cohort_mutation_signatures: the caller's SNV table
    snvs_table,    \* plot_cohort_mutation_signatures: the local snvs_table
    assign_pc,     \* plot_cohort_mutation_signatures: the statement reached
    fit_input,     \* fit_sample_signatures: rows per (group, tri_nuc_idx) of the argument
    fit_pc,        \* fit_sample_signatures: the statement reached
    snv_counts,    \* fit_sample_signatures: rows per group
    fit_snvs,      \* fit_sample_signatures: the local snvs_table, after the filter
    tri_nuc_table, \* fit_sample_signatures: the group x context count table
    lda_input,     \* fit_sample_signatures: the matrix handed to model.transform
    sample_sig,    \* fit_sample_signatures: the returned frame
    data,          \* test_ancestral_descendant: the index of the argument
    test_pc,       \* test_ancestral_descendant: the statement reached
    test_groups,   \* test_ancestral_descendant: the dict of the groupby
    test_result    \* test_ancestral_descendant: what the call ended with

rc_vars     == <<sequence, rc_value, rc_applied>>
load_vars   == <<table, load_pc, load_status, sigs, sig_prob_index>>
assign_vars == <<snvs_input, snvs_table, assign_pc>>
fit_vars    == <<fit_input, fit_pc, snv_counts, fit_snvs, tri_nuc_table,
                 lda_input, sample_sig>>
test_vars   == <<data, test_pc, test_groups, test_result>>
vars        == <<rc_vars, load_vars, assign_vars, fit_vars, test_vars>>

\* ------------------------------------------------------------------ bounds

\* Longest argument of reverse_complement (a base has 1, a context 3).
MaxSeqLen == 3
\* Most rows of a reference table.
MaxRefRows == 2
\* Most rows of an SNV table handed to the context assignment.
MaxSnvRows == 2
\* Most groups (values of subset_col) of a table handed to the fit.
MaxGroups == 2
\* The contexts of the signature basis handed to the fit (96 in the
\* reference basis).
NumContexts == 2
\* Most rows of a series handed to test_ancestral_descendant.
MaxSamples == 3

\* ----------------------------------------------------------------- strings

SeqsUpTo(S, n) == UNION {[1..k -> S] : k \in 0..n}

Reverse(s) == [i \in 1..Len(s) |-> s[Len(s) + 1 - i]]

\* str.maketrans('ACTGactg', 'TGACtgac')
TransFrom == <<"A", "C", "T", "G", "a", "c", "t", "g">>
TransTo   == <<"T", "G", "A", "C", "t", "g", "a", "c">>

\* A table with two entries exchanged: 'TGCAtgac'.
TranslateTypo(c) ==
    LET typo == <<"T", "G", "C", "A", "t", "g", "a", "c">>
    IN  IF \E i \in 1..Len(TransFrom) : TransFrom[i] = c
        THEN typo[CHOOSE i \in 1..Len(TransFrom) : TransFrom[i] = c]
        ELSE c

\* No complement at all: the string is only reversed.
TranslateNone(c) == c

\* str.translate of one character: mapped by the table, else left as it is.
Translate(c) ==
    IF \E i \in 1..Len(TransFrom) : TransFrom[i] = c
    THEN TransTo[CHOOSE i \in 1..Len(TransFrom) : TransFrom[i] = c]
    ELSE c

\* sequence[::-1].translate(...)
reverse_complement(s) == [i \in 1..Len(s) |-> Translate(Reverse(s)[i])]

\* ------------------------------------------------- reverse_complement runs

Bases == {"A", "C", "G", "T", "a", "c", "g", "t"}

RCIdle == sequence = <<>> /\ rc_value = <<>> /\ rc_applied = 0

RCInit ==
    /\ sequence \in (SeqsUpTo(Bases, MaxSeqLen) \ {<<>>})
    /\ rc_value = sequence
    /\ rc_applied = 0

ApplyReverseComplement ==
    /\ rc_applied < 2
    /\ rc_value' = reverse_complement(rc_value)
    /\ rc_applied' = rc_applied + 1
    /\ UNCHANGED sequence

\* ------------------------------------------- load_signature_probabilities

\* Python's str.split(sep) for a one-character separator.
RECURSIVE Split(_, _)
Split(s, sep) ==
    IF \E i \in 1..Len(s) : s[i] = sep
    THEN LET p == CHOOSE i \in 1..Len(s) :
                     s[i] = sep /\ \A j \in 1..(i - 1) : s[j] # sep
         IN  <<SubSeq(s, 1, p - 1)>> \o Split(SubSeq(s, p + 1, Len(s)), sep)
    ELSE <<s>>

\* a.split('>')[0]
SubstitutionRef(a) == Split(a, ">")[1]

\* a.split('>')[1]
SubstitutionAlt(a) == Split(a, ">")[2]

\* The index taken is [2]: "X>Y" raises too.
AltRaisesIndexTwo(a) == Len(Split(a, ">")) < 3

\* a.split('>')[1] raises IndexError when the split has one part only.
AltRaises(a) == Len(Split(a, ">")) < 2

\* The columns added to sig_prob, for the row at position i (1-based here,
\* range(len(sig_prob.index)) is 0-based).
SigProbRow(t, i) ==
    [tri_nuc_idx            |-> i - 1,
     ref                    |-> SubstitutionRef(t[i].SubstitutionType),
     alt                    |-> SubstitutionAlt(t[i].SubstitutionType),
     tri_nucleotide_context |-> t[i].Trinucleotide]

\* The context column is left as it is.
ReverseComplementRowNoContext(r) ==
    [r EXCEPT !.ref = reverse_complement(r.ref),
              !.alt = reverse_complement(r.alt)]

\* for col in ['ref', 'alt', 'tri_nucleotide_context']: apply(reverse_complement)
ReverseComplementRow(r) ==
    [r EXCEPT !.ref = reverse_complement(r.ref),
              !.alt = reverse_complement(r.alt),
              !.tri_nucleotide_context = reverse_complement(r.tri_nucleotide_context)]

\* sig1: the original rows.
Sig1(t) == [i \in 1..Len(t) |-> SigProbRow(t, i)]

\* sig2: the reverse complement of every row, under the original's index.
Sig2(t) == [i \in 1..Len(t) |-> ReverseComplementRow(SigProbRow(t, i))]

\* pd.concat([sig1, sig2], ignore_index=True)
Sigs(t) == Sig1(t) \o Sig2(t)

\* Whether the function raises on table t.
LoadRaises(t) == \E i \in 1..Len(t) : AltRaises(t[i].SubstitutionType)

Trinucleotides == {<<"A", "C", "A">>, <<"T", "G", "T">>, <<"A", "C", "G">>}
SubstitutionTypes ==
    {<<"C", ">", "A">>, <<"G", ">", "T">>, <<"T", ">", "C">>, <<"C", "A">>}
RefRows == [Trinucleotide : Trinucleotides, SubstitutionType : SubstitutionTypes]

LoadIdle ==
    /\ table = <<>>
    /\ load_pc = "idle"
    /\ load_status = "ok"
    /\ sigs = <<>>
    /\ sig_prob_index = <<>>

LoadInit ==
    /\ table \in SeqsUpTo(RefRows, MaxRefRows)
    /\ load_pc = "start"
    /\ load_status = "ok"
    /\ sigs = <<>>
    /\ sig_prob_index = <<>>

LoadSignatureProbabilities ==
    /\ load_pc = "start"
    /\ load_pc' = "done"
    /\ IF LoadRaises(table)
       THEN /\ load_status' = "IndexError"
            /\ UNCHANGED <<sigs, sig_prob_index>>
       ELSE /\ load_status' = "ok"
            /\ sigs' = Sigs(table)
            /\ sig_prob_index' = [i \in 1..Len(table) |-> i - 1]
    /\ UNCHANGED table

\* ------------------------- plot_cohort_mutation_signatures, lines 134-146

\* A missing (NaN) trinucleotide context.
NaN == <<"NaN">>

\* snvs_table['tri_nucleotide_context'].notnull()
NotNull(r) == r.tri_nucleotide_context # NaN

\* Zero read counts pass as well.
AltCountsNotNegative(r) == r.alt_counts >= 0

\* snvs_table['alt_counts'] > 0
AltCountsPositive(r) == r.alt_counts > 0

\* DataFrame.merge joins on the columns the two frames share.
MergeKey(r) == <<r.ref, r.alt, r.tri_nucleotide_context>>

\* The rows of an inner merge for the left row l: one for each row of right
\* with l's key, in right's order, with right's tri_nuc_idx attached.
MergeRow(l, right) ==
    LET hits == SelectSeq(right, LAMBDA x : MergeKey(x) = MergeKey(l))
    IN  [k \in 1..Len(hits) |->
            [coord                  |-> l.coord,
             ref                    |-> l.ref,
             alt                    |-> l.alt,
             tri_nucleotide_context |-> l.tri_nucleotide_context,
             alt_counts             |-> l.alt_counts,
             tri_nuc_idx            |-> hits[k].tri_nuc_idx]]

\* left.merge(right): an inner join that keeps the order of the left rows.
RECURSIVE Merge(_, _)
Merge(left, right) ==
    IF left = <<>> THEN <<>>
    ELSE MergeRow(Head(left), right) \o Merge(Tail(left), right)

\* The reference tables of the assignment runs: well-formed rows only.
AssignRefRows ==
    {[Trinucleotide |-> <<"A", "C", "A">>, SubstitutionType |-> <<"C", ">", "A">>],
     [Trinucleotide |-> <<"T", "G", "T">>, SubstitutionType |-> <<"G", ">", "T">>],
     [Trinucleotide |-> <<"A", "C", "G">>, SubstitutionType |-> <<"C", ">", "A">>]}

\* The SNV rows of the assignment runs, without their coordinate.
SnvCells ==
    {c \in [ref : {<<"C">>, <<"G">>},
            alt : {<<"A">>, <<"T">>},
            tri_nucleotide_context : {<<"A", "C", "A">>, <<"T", "G", "T">>, NaN},
            alt_counts : {0, 2}] :
        (c.ref = <<"C">>) <=> (c.alt = <<"A">>)}

\* An SNV table: row i at coordinate i.
SnvTable(cells) ==
    [i \in 1..Len(cells) |->
        [coord                  |-> i,
         ref                    |-> cells[i].ref,
         alt                    |-> cells[i].alt,
         tri_nucleotide_context |-> cells[i].tri_nucleotide_context,
         alt_counts             |-> cells[i].alt_counts]]

AssignIdle == snvs_input = <<>> /\ snvs_table = <<>> /\ assign_pc = "idle"

\* The reference table has one row per context: no row twice.
AssignInit ==
    /\ table \in {t \in SeqsUpTo(AssignRefRows, MaxRefRows) :
                    \A i, j \in 1..Len(t) : i # j => t[i] # t[j]}
    /\ load_pc = "start"
    /\ load_status = "ok"
    /\ sigs = <<>>
    /\ sig_prob_index = <<>>
    /\ \E cells \in SeqsUpTo(SnvCells, MaxSnvRows) : snvs_input = SnvTable(cells)
    /\ snvs_table = snvs_input
    /\ assign_pc = "start"

\* line 142
DropMissingContext ==
    /\ assign_pc = "start"
    /\ load_pc = "done" /\ load_status = "ok"
    /\ snvs_table' = SelectSeq(snvs_table, NotNull)
    /\ assign_pc' = "notnull"
    /\ UNCHANGED snvs_input

\* line 143
MergeSigs ==
    /\ assign_pc = "notnull"
    /\ snvs_table' = Merge(snvs_table, sigs)
    /\ assign_pc' = "merged"
    /\ UNCHANGED snvs_input

\* line 146
FilterAltCounts ==
    /\ assign_pc = "merged"
    /\ snvs_table' = SelectSeq(snvs_table, AltCountsPositive)
    /\ assign_pc' = "filtered"
    /\ UNCHANGED snvs_input

\* --------------------------------------------------- fit_sample_signatures

\* The threshold of line 19.
MinSnvCount == 100

\* The values of subset_col, and the context indices of the basis sig_prob.
Groups     == 1..MaxGroups
ContextIdx == 0..(NumContexts - 1)

\* The elements of a finite set of integers, ascending (pandas sorts the keys
\* of a groupby).
RECURSIVE Sorted(_)
Sorted(S) ==
    IF S = {} THEN <<>>
    ELSE LET m == CHOOSE x \in S : \A y \in S : x <= y
         IN  <<m>> \o Sorted(S \ {m})

RECURSIVE SumOver(_, _)
SumOver(f, S) ==
    IF S = {} THEN 0
    ELSE LET x == CHOOSE y \in S : TRUE
         IN  f[x] + SumOver(f, S \ {x})

\* The rows of group g in a table given by its rows per (group, context).
GroupSize(t, g) == SumOver([c \in ContextIdx |-> t[g, c]], ContextIdx)

\* snvs_table.groupby(subset_col).size(): a group is a value that occurs.
GroupbySize(t) ==
    LET present == {g \in Groups : GroupSize(t, g) > 0}
    IN  [g \in present |-> GroupSize(t, g)]

\* The comparison lets a group of exactly 100 through.
KeepsAtLeast(n) == n >= MinSnvCount

\* snv_counts > 100
Keeps(n) == n > MinSnvCount

\* set_index(subset_col).loc[snv_counts[snv_counts > 100].index]: the rows of
\* the groups kept, the others gone.
FilterSamples(t, counts) ==
    [p \in Groups \X ContextIdx |->
        IF p[1] \in DOMAIN counts /\ Keeps(counts[p[1]]) THEN t[p] ELSE 0]

\* groupby([subset_col, 'tri_nuc_idx']).size().unstack().fillna(0).astype(int):
\* a row for each group that occurs, a column for each tri_nuc_idx that
\* occurs, both ascending; 0 where a pair does not occur.
Unstack(t) ==
    LET index   == Sorted({g \in Groups : \E c \in ContextIdx : t[g, c] > 0})
        columns == Sorted({c \in ContextIdx : \E g \in Groups : t[g, c] > 0})
    IN  [index   |-> index,
         columns |-> columns,
         values  |-> [i \in 1..Len(index) |->
                        [j \in 1..Len(columns) |-> t[index[i], columns[j]]]]]

\* The test is never true.
IsEmptyNever(frame) == Len(frame.index) < 0

\* len(tri_nuc_table.index) == 0
IsEmpty(frame) == Len(frame.index) = 0

\* pd.DataFrame(): no rows.
EmptyFrame == [returned |-> TRUE, index |-> <<>>]

\* The rows per (group, context) drawn for a cell of the argument.
CellCounts == {0, 1, MinSnvCount, MinSnvCount + 1}

NoFrame == [index |-> <<>>, columns |-> <<>>, values |-> <<>>]

\* model.transform was not called; the function has not returned.
NotCalled   == [called |-> FALSE]
NotReturned == [returned |-> FALSE]

FitIdle ==
    /\ fit_input = <<>>
    /\ fit_pc = "idle"
    /\ snv_counts = <<>>
    /\ fit_snvs = <<>>
    /\ tri_nuc_table = NoFrame
    /\ lda_input = NotCalled
    /\ sample_sig = NotReturned

FitInit ==
    /\ fit_input \in [Groups \X ContextIdx -> CellCounts]
    /\ fit_pc = "start"
    /\ snv_counts = <<>>
    /\ fit_snvs = fit_input
    /\ tri_nuc_table = NoFrame
    /\ lda_input = NotCalled
    /\ sample_sig = NotReturned

\* line 18
CountSnvs ==
    /\ fit_pc = "start"
    /\ snv_counts' = GroupbySize(fit_snvs)
    /\ fit_pc' = "counted"
    /\ UNCHANGED <<fit_input, fit_snvs, tri_nuc_table, lda_input, sample_sig>>

\* line 19
FilterSnvs ==
    /\ fit_pc = "counted"
    /\ fit_snvs' = FilterSamples(fit_snvs, snv_counts)
    /\ fit_pc' = "filtered"
    /\ UNCHANGED <<fit_input, snv_counts, tri_nuc_table, lda_input, sample_sig>>

\* lines 21-22
Tabulate ==
    /\ fit_pc = "filtered"
    /\ tri_nuc_table' = Unstack(fit_snvs)
    /\ fit_pc' = "tabulated"
    /\ UNCHANGED <<fit_input, snv_counts, fit_snvs, lda_input, sample_sig>>

\* lines 24-25
ReturnEmpty ==
    /\ fit_pc = "tabulated"
    /\ IsEmpty(tri_nuc_table)
    /\ sample_sig' = EmptyFrame
    /\ fit_pc' = "done"
    /\ UNCHANGED <<fit_input, snv_counts, fit_snvs, tri_nuc_table, lda_input>>

\* lines 27-37: model.transform gets the bare values, so a column is known to
\* it by its position alone; the frame returned has the table's index (its
\* columns and values are the inference's, which is not modelled).
Transform ==
    /\ fit_pc = "tabulated"
    /\ ~IsEmpty(tri_nuc_table)
    /\ lda_input' = [called |-> TRUE, X |-> tri_nuc_table.values]
    /\ sample_sig' = [returned |-> TRUE, index |-> tri_nuc_table.index]
    /\ fit_pc' = "done"
    /\ UNCHANGED <<fit_input, snv_counts, fit_snvs, tri_nuc_table>>

\* ----------------------------------------------- test_ancestral_descendant

Node0 == <<"N", "o", "d", "e", "0">>

\* 'Node0' in a
Contains(a, suffix) ==
    \E k \in 1..(Len(a) - Len(suffix) + 1) :
        SubSeq(a, k, k + Len(suffix) - 1) = suffix

\* a.endswith(suffix)
EndsWith(a, suffix) ==
    /\ Len(a) >= Len(suffix)
    /\ SubSeq(a, Len(a) - Len(suffix) + 1, Len(a)) = suffix

\* data.groupby(by=lambda a: a.endswith('Node0')), as a dict: a key for each
\* value the lambda takes, with the positions of its rows.
GroupByNode0(d) ==
    LET keys == {EndsWith(d[i], Node0) : i \in 1..Len(d)}
    IN  [k \in keys |-> {i \in 1..Len(d) : EndsWith(d[i], Node0) = k}]

\* The group identifiers drawn for the index of the argument.
SampleIds ==
    {Node0,
     <<"P", "_">> \o Node0,
     <<"P", "_", "N", "o", "d", "e", "1">>,
     Node0 \o <<"1">>,
     <<"N", "o", "d", "e">>,
     <<"0">>}

TestIdle ==
    /\ data = <<>>
    /\ test_pc = "idle"
    /\ test_groups = <<>>
    /\ test_result = [kind |-> "none"]

TestInit ==
    /\ data \in SeqsUpTo(SampleIds, MaxSamples)
    /\ test_pc = "start"
    /\ test_groups = <<>>
    /\ test_result = [kind |-> "none"]

\* line 49
GroupBySuffix ==
    /\ test_pc = "start"
    /\ test_groups' = GroupByNode0(data)
    /\ test_pc' = "grouped"
    /\ UNCHANGED <<data, test_result>>

\* line 50, data[True] or data[False] missing
RaiseKeyError ==
    /\ test_pc = "grouped"
    /\ ~({TRUE, FALSE} \subseteq DOMAIN test_groups)
    /\ test_result' = [kind |-> "KeyError"]
    /\ test_pc' = "done"
    /\ UNCHANGED <<data, test_groups>>

\* line 50, both there: the p-value of mannwhitneyu(data[True], data[False])
MannWhitneyU ==
    /\ test_pc = "grouped"
    /\ {TRUE, FALSE} \subseteq DOMAIN test_groups
    /\ test_result' = [kind |-> "pvalue",
                       x |-> test_groups[TRUE],
                       y |-> test_groups[FALSE]]
    /\ test_pc' = "done"
    /\ UNCHANGED <<data, test_groups>>

\* --------------------------------------------------------- specifications

InitReverseComplement == RCInit /\ LoadIdle /\ AssignIdle /\ FitIdle /\ TestIdle
NextReverseComplement ==
    ApplyReverseComplement /\ UNCHANGED <<load_vars, assign_vars, fit_vars, test_vars>>
SpecReverseComplement ==
    InitReverseComplement /\ [][NextReverseComplement]_vars

InitLoad == LoadInit /\ RCIdle /\ AssignIdle /\ FitIdle /\ TestIdle
NextLoad ==
    LoadSignatureProbabilities /\ UNCHANGED <<rc_vars, assign_vars, fit_vars, test_vars>>
SpecLoad == InitLoad /\ [][NextLoad]_vars

InitAssign == AssignInit /\ RCIdle /\ FitIdle /\ TestIdle
NextAssign ==
    \/ LoadSignatureProbabilities /\ UNCHANGED <<rc_vars, assign_vars, fit_vars, test_vars>>
    \/ DropMissingContext /\ UNCHANGED <<rc_vars, load_vars, fit_vars, test_vars>>
    \/ MergeSigs /\ UNCHANGED <<rc_vars, load_vars, fit_vars, test_vars>>
    \/ FilterAltCounts /\ UNCHANGED <<rc_vars, load_vars, fit_vars, test_vars>>
SpecAssign == InitAssign /\ [][NextAssign]_vars

InitFit == FitInit /\ RCIdle /\ LoadIdle /\ AssignIdle /\ TestIdle
NextFit ==
    \/ CountSnvs /\ UNCHANGED <<rc_vars, load_vars, assign_vars, test_vars>>
    \/ FilterSnvs /\ UNCHANGED <<rc_vars, load_vars, assign_vars, test_vars>>
    \/ Tabulate /\ UNCHANGED <<rc_vars, load_vars, assign_vars, test_vars>>
    \/ ReturnEmpty /\ UNCHANGED <<rc_vars, load_vars, assign_vars, test_vars>>
    \/ Transform /\ UNCHANGED <<rc_vars, load_vars, assign_vars, test_vars>>
SpecFit == InitFit /\ [][NextFit]_vars

InitTest == TestInit /\ RCIdle /\ LoadIdle /\ AssignIdle /\ FitIdle
NextTest ==
    \/ GroupBySuffix /\ UNCHANGED <<rc_vars, load_vars, assign_vars, fit_vars>>
    \/ RaiseKeyError /\ UNCHANGED <<rc_vars, load_vars, assign_vars, fit_vars>>
    \/ MannWhitneyU /\ UNCHANGED <<rc_vars, load_vars, assign_vars, fit_vars>>
SpecTest == InitTest /\ [][NextTest]_vars

\* ------------------------------------------------------------------ claims

\* The exchange of A with T and of C with G, in either case.
SwapBase(c) ==
    CASE c = "A" -> "T" [] c = "T" -> "A" [] c = "C" -> "G" [] c = "G" -> "C"
      [] c = "a" -> "t" [] c = "t" -> "a" [] c = "c" -> "g" [] c = "g" -> "c"

\* C5: one application of reverse_complement to a base or a context over
\* A, C, G, T (either case) reverses it and exchanges A with T and C with G,
\* keeping the case; two applications give the argument back.
C5_ReverseComplementInvolution ==
    /\ rc_applied = 1 =>
          /\ Len(rc_value) = Len(sequence)
          /\ \A i \in 1..Len(sequence) :
                rc_value[i] = SwapBase(sequence[Len(sequence) + 1 - i])
    /\ rc_applied = 2 => rc_value = sequence

\* C5's case: a trinucleotide that is not its own reverse complement, after
\* the second application.
C5_Witness ==
    /\ rc_applied = 2
    /\ sequence = <<"A", "c", "G">>
    /\ rc_value = sequence

\* The (ref, alt, context) triple of a lookup row.
Triple(r) == <<r.ref, r.alt, r.tri_nucleotide_context>>

Loaded == load_pc = "done" /\ load_status = "ok"

\* No two rows of the reference table have the same substitution type and
\* trinucleotide, that is the same (ref, alt, context).
OneRowPerContext ==
    \A i, j \in 1..Len(table) : i # j => table[i] # table[j]

\* No row of the reference table is the reverse complement of another row.
NoRowIsReverseComplementOfAnother ==
    \A i, j \in 1..Len(table) :
        i # j => Triple(ReverseComplementRow(SigProbRow(table, i)))
                    # Triple(SigProbRow(table, j))

\* No triple is in two rows of the lookup.
LookupTriplesUnique ==
    \A k, l \in 1..Len(sigs) : k # l => Triple(sigs[k]) # Triple(sigs[l])

\* C3 as stated: for any reference table with one row per context, no triple
\* is in two rows of the lookup.
C3_Original == (Loaded /\ OneRowPerContext) => LookupTriplesUnique

\* C3 as amended: for any reference table with one row per context in which
\* no row is the reverse complement of another row, no triple is in two rows
\* of the lookup (so every triple maps to exactly one context index).
C3_LookupTriplesUnique ==
    (Loaded /\ OneRowPerContext /\ NoRowIsReverseComplementOfAnother)
        => LookupTriplesUnique

\* C3's case: a loaded table of two rows, distinct and not each other's
\* reverse complement.
C3_Witness ==
    /\ Loaded
    /\ Len(table) = 2
    /\ OneRowPerContext
    /\ NoRowIsReverseComplementOfAnother
    /\ Len(sigs) = 4

\* C4: for every row of the reference table the lookup holds the original
\* triple and the reverse-complemented triple, both under the row's position
\* in the reference table.
C4_BothStrandsSameIndex ==
    Loaded =>
        \A i \in 1..Len(table) :
            LET parts == Split(table[i].SubstitutionType, ">")
                ctx   == table[i].Trinucleotide
            IN  /\ \E k \in 1..Len(sigs) :
                      sigs[k] = [tri_nuc_idx |-> i - 1,
                                 ref |-> parts[1],
                                 alt |-> parts[2],
                                 tri_nucleotide_context |-> ctx]
                /\ \E k \in 1..Len(sigs) :
                      sigs[k] = [tri_nuc_idx |-> i - 1,
                                 ref |-> reverse_complement(parts[1]),
                                 alt |-> reverse_complement(parts[2]),
                                 tri_nucleotide_context |->
                                     reverse_complement(ctx)]

\* C4's case: a loaded table whose second row has a context that differs
\* from its reverse complement.
C4_Witness ==
    /\ Loaded
    /\ Len(table) = 2
    /\ table[2].Trinucleotide = <<"A", "C", "G">>
    /\ sigs[4].tri_nucleotide_context = <<"C", "G", "T">>
    /\ sigs[4].tri_nuc_idx = 1

\* Some substitution type of the reference table holds no ">".
SomeSubstitutionLacksSeparator ==
    \E i \in 1..Len(table) :
        \A k \in 1..Len(table[i].SubstitutionType) :
            table[i].SubstitutionType[k] # ">"

\* C6 as stated: the load fails if the reference table has not exactly one
\* row per context, or if a substitution type holds no ">".
C6_Original ==
    (load_pc = "done" /\ (~OneRowPerContext \/ SomeSubstitutionLacksSeparator))
        => load_status # "ok"

\* C6 as amended: the load fails (IndexError) exactly if a substitution type
\* holds no ">"; a table that repeats a context loads, each row under its own
\* position.
C6_FailsOnMissingSeparator ==
    load_pc = "done" =>
        /\ (load_status = "IndexError") <=> SomeSubstitutionLacksSeparator
        /\ load_status = "ok" =>
              sig_prob_index = [i \in 1..Len(table) |-> i - 1]

\* C6's case: a table whose second row has no ">" failed to load.
C6_Witness ==
    /\ load_pc = "done"
    /\ load_status = "IndexError"
    /\ Len(table) = 2
    /\ table[2].SubstitutionType = <<"C", "A">>
    /\ table[1].SubstitutionType = <<"C", ">", "A">>

\* The rows of group g in the table handed to fit_sample_signatures.
RowsOfGroup(g) == SumOver([c \in ContextIdx |-> fit_input[g, c]], ContextIdx)

\* The groups that are rows of the returned exposure table.
ReturnedGroups == {sample_sig.index[i] : i \in 1..Len(sample_sig.index)}

C9_MatrixHasEveryContext ==
    lda_input.called =>
        \A i \in 1..Len(lda_input.X) :
            /\ Len(lda_input.X[i]) = NumContexts
            /\ \A c \in ContextIdx :
                  c + 1 <= Len(lda_input.X[i]) =>
                      lda_input.X[i][c + 1] = fit_input[tri_nuc_table.index[i], c]

\* The last five characters of a are N, o, d, e, 0.
HasSuffixNode0(a) ==
    /\ Len(a) >= 5
    /\ a[Len(a) - 4] = "N"
    /\ a[Len(a) - 3] = "o"
    /\ a[Len(a) - 2] = "d"
    /\ a[Len(a) - 1] = "e"
    /\ a[Len(a)] = "0"

Ancestral  == {i \in 1..Len(data) : HasSuffixNode0(data[i])}
Descendant == {i \in 1..Len(data) : ~HasSuffixNode0(data[i])}

\* C7: test_ancestral_descendant raises, with no p-value, whenever no
\* identifier or every identifier ends with "Node0"; otherwise the two
\* samples of the test are the rows whose identifier ends with "Node0" and
\* the other rows.
C7_FailsOnEmptyClass ==
    test_pc = "done" =>
        /\ (Ancestral = {} \/ Descendant = {}) => test_result.kind = "KeyError"
        /\ (Ancestral # {} /\ Descendant # {}) =>
              /\ test_result.kind = "pvalue"
              /\ test_result.x = Ancestral
              /\ test_result.y = Descendant

\* C7's case: every identifier ends with "Node0", and the call raised.
C7_Witness ==
    /\ test_pc = "done"
    /\ Len(data) = 2
    /\ Descendant = {}
    /\ test_result.kind = "KeyError"

\* The rows of the assignment's output that come from the input row i.
OutputRowsOf(i) ==
    {k \in 1..Len(snvs_table) : snvs_table[k].coord = snvs_input[i].coord}

\* The rows of the lookup with the triple of the SNV row r.
LookupRowsOf(r) ==
    {k \in 1..Len(sigs) :
        Triple(sigs[k]) = <<r.ref, r.alt, r.tri_nucleotide_context>>}

\* The context index carried, and the rest of the row unchanged.
CarriesIndexOf(out, r, k) ==
    /\ out.tri_nuc_idx = sigs[k].tri_nuc_idx
    /\ out.ref = r.ref /\ out.alt = r.alt
    /\ out.tri_nucleotide_context = r.tri_nucleotide_context
    /\ out.alt_counts = r.alt_counts

====
